---- MODULE Spec2Model ----
(***************************************************************************)
(* A model of new-plex-dubs: the "Latest Dubs" collection reconciler       *)
(* (src/src/shared.py manage_collection), the deletion ledger kept in      *)
(* /tmp/deleted_media_ids.txt (handle_deletion_event, trim_file,           *)
(* was_media_deleted) and the two webhook handlers (src/src/sonarr.py,     *)
(* src/src/radarr.py).                                                     *)
(***************************************************************************)
EXTENDS Integers, Sequences, FiniteSets, TLC

(***************************************************************************)
(* Bounds of the model.                                                    *)
(***************************************************************************)
\* MAX_COLLECTION_SIZE is read from the environment (config.py:74, default
\* 100); the model runs it at a small value.
MAX_COLLECTION_SIZE == 2
\* Catalog items (episodes, movies) are 1..MaxMedia.
MaxMedia == 4
\* The most manage_collection runs recorded in the history `added`.
MaxRuns == MAX_COLLECTION_SIZE + 2
\* The largest "Latest Dubs" collection the library may hold at start.
MaxInitSize == MAX_COLLECTION_SIZE + 2

\* handle_deletion_event trims the ledger to its last 100 lines
\* (shared.py:155); the model runs the limit at a small value.
MaxLedgerEntries == 2
\* The most ledger appends recorded in the history `appended`.
MaxAppends == MaxLedgerEntries + 2

Media == 1..MaxMedia

\* The media ids events carry: 0 is the handlers' default for a missing id,
\* and the decimal text of 12 contains that of 1 and of 2.
MediaIds == {0, 1, 2, 3, 12}

\* The ids webhook payloads carry when they carry one.
EventIds == {1, 12}

\* MAX_DATE_DIFF (config.py:75): the recency window in days.
MAX_DATE_DIFF == 4

collection_name == "Latest Dubs"

VARIABLES
  collections,  \* the library section's collections, in listing order:
                \* a sequence of [title, items], items[1] being index 0
  mc,           \* the last completed manage_collection call
  added,        \* the media of every completed manage_collection, in order
  fresh         \* TRUE iff the library started with no "Latest Dubs"

colVars == <<collections, mc, added, fresh>>

VARIABLES
  deleted_media_ids,  \* the text of /tmp/deleted_media_ids.txt, a sequence
                      \* of characters
  ledgerOp,           \* the last direct ledger call and what it returned
  called,             \* the ids handle_deletion_event was called with
                      \* directly
  appended            \* the ids those calls wrote to the file, in order

ledgerVars == <<deleted_media_ids, ledgerOp, called, appended>>

VARIABLES
  config,  \* SONARR_LIBRARY and RADARR_LIBRARY: is a library name set
  ev,      \* the last webhook request handled, and what the handler did
  armed    \* the <<endpoint, id>> pairs for which an upgrade-delete of
           \* dubbed media was handled and whose id has not been evicted
           \* from the ledger since

hookVars == <<config, ev, armed>>

VARIABLES
  flock,   \* the flock each thread holds on the ledger file through its own
           \* open file: "UN", "SH" or "EX"
  lt,      \* each ledger thread: where it is in handle_deletion_event or
           \* was_media_deleted, and its local variables
  ncalls   \* the handle_deletion_event calls started so far

lockVars == <<flock, lt, ncalls>>

VARIABLES
  bg,     \* each background thread: where it is in its handler
          \* (sonarr_handle_download_event, radarr_handle_download_event)
          \* and in manage_collection, and its local variables
  req,    \* the request thread that dispatches the background threads
  cols0   \* the library's collections before any background thread ran

taskVars == <<bg, req, cols0>>

VARIABLES
  rc,   \* an is_recent_or_upcoming_release call: UTC today, the argument,
        \* and what the call returned
  fz    \* a get_fuzzy_match call: the library's items, the score of each
        \* title against the query, and what the call returned

pureVars == <<rc, fz>>

VARIABLES
  ge,      \* a get_episode_from_data call: where it is, its local variables
           \* and the catalog calls it has made
  answers  \* what the catalog answered to each call of it, in call order

resolveVars == <<ge, answers>>

VARIABLES
  exists,  \* whether /tmp/deleted_media_ids.txt exists
  up,      \* whether app.py has run ensure_file_exists and serves requests
  job      \* the media id of the Download event each background thread
           \* was started for

serverVars == <<exists, up, job>>

VARIABLES
  cp  \* the connect_to_plex call at import: its argument, its local
      \* variables, what each attempt answered and each time.sleep it made

connectVars == <<cp>>

moreVars == <<resolveVars, serverVars, connectVars>>

concVars == <<lockVars, taskVars, pureVars, moreVars>>

\* What a step of a ledger thread leaves alone besides the ledger file.
ledgerConcFrame ==
  <<colVars, ledgerOp, called, hookVars, taskVars, pureVars, moreVars>>

(***************************************************************************)
(* Sequence helpers.                                                       *)
(***************************************************************************)
Range(s) == {s[i] : i \in DOMAIN s}

NoDup(s) == \A i, j \in DOMAIN s : i # j => s[i] # s[j]

Min(a, b) == IF a < b THEN a ELSE b

Reverse(s) == [i \in 1..Len(s) |-> s[Len(s) + 1 - i]]

\* Every sequence without repetition over S of length at most n.
RECURSIVE DistinctSeqs(_, _)
DistinctSeqs(S, n) ==
  IF n = 0 THEN {<<>>}
  ELSE LET shorter == DistinctSeqs(S, n - 1) IN
       shorter \cup
         {t \in {Append(s, x) : s \in shorter, x \in S} : NoDup(t)}

\* Python's s[start:]: a negative start counts from the end, and both ends
\* are clamped to the sequence.
PySliceFrom(s, start) ==
  LET n == Len(s)
      i == IF start < 0
           THEN (IF start + n < 0 THEN 0 ELSE start + n)
           ELSE (IF start > n THEN n ELSE start)
  IN  SubSeq(s, i + 1, n)

(***************************************************************************)
(* The catalog's collection operations (plexapi), on an item sequence.     *)
(***************************************************************************)
\* collection.addItems([media]): the item joins the collection at the end.
addItems(items, media) == Append(items, media)

\* collection.moveItem(media, after=None): media goes to the front.
moveItem(items, media) ==
  <<media>> \o SelectSeq(items, LAMBDA x : x # media)

\* collection.removeItems(items_to_remove).
removeItems(items, items_to_remove) ==
  SelectSeq(items, LAMBDA x : x \notin Range(items_to_remove))

(***************************************************************************)
(* manage_collection, step by step.                                        *)
(***************************************************************************)
\* The index of the first collection titled `name`, 0 when there is none.
FindCollection(cols, name) ==
  IF \E i \in DOMAIN cols : cols[i].title = name
  THEN CHOOSE i \in DOMAIN cols :
         /\ cols[i].title = name
         /\ \A j \in 1..(i - 1) : cols[j].title # name
  ELSE 0

\* createCollection(title=collection_name, items=[media]).
createCollection(cols, media) ==
  Append(cols, [title |-> collection_name, items |-> <<media>>])

\* Lines 97-105: add the media and move it to the front, unless present.
MembershipStep(items, media) ==
  IF media \notin Range(items)
  THEN moveItem(addItems(items, media), media)
  ELSE items

\* ItemsToRemove with the count one too small.
ItemsToRemove_OffByOne(items) ==
  LET num_items_to_remove == Len(items) - MAX_COLLECTION_SIZE - 1
  IN  PySliceFrom(items, -num_items_to_remove)

\* Lines 111-114: items_to_remove = items[-num_items_to_remove:].
ItemsToRemove(items) ==
  LET num_items_to_remove == Len(items) - MAX_COLLECTION_SIZE
  IN  PySliceFrom(items, -num_items_to_remove)

\* Lines 107-121: the trim, entered when the size is >= the maximum.
TrimStep(items) ==
  IF Len(items) >= MAX_COLLECTION_SIZE
  THEN removeItems(items, ItemsToRemove(items))
  ELSE items

\* The collections a library may list once collection i holds `items`: the
\* server may drop a collection that has become empty, or keep it.
Stored(cols, i, items) ==
  {[cols EXCEPT ![i].items = items]} \cup
  (IF items = <<>>
   THEN {SubSeq(cols, 1, i - 1) \o SubSeq(cols, i + 1, Len(cols))}
   ELSE {})

\* The items of the "Latest Dubs" collection, <<>> when there is none.
LatestDubs(cols) ==
  LET i == FindCollection(cols, collection_name)
  IN  IF i = 0 THEN <<>> ELSE cols[i].items

NoCall == [done |-> FALSE, media |-> 0, found |-> FALSE,
           before |-> <<>>, pretrim |-> <<>>]

\* One complete manage_collection(LIBRARY_NAME, media) call.
ManageCollection(media) ==
  LET i == FindCollection(collections, collection_name) IN
  /\ IF i = 0
     THEN /\ collections' = createCollection(collections, media)
          /\ mc' = [done |-> TRUE, media |-> media, found |-> FALSE,
                    before |-> <<>>, pretrim |-> <<media>>]
     ELSE LET before == collections[i].items
              pretrim == MembershipStep(before, media)
          IN  /\ collections' \in Stored(collections, i, TrimStep(pretrim))
              /\ mc' = [done |-> TRUE, media |-> media, found |-> TRUE,
                        before |-> before, pretrim |-> pretrim]

RunManageCollection ==
  \E media \in Media :
    /\ Len(added) < MaxRuns
    /\ ManageCollection(media)
    /\ added' = Append(added, media)
    /\ UNCHANGED <<fresh, ledgerVars, hookVars, concVars>>

InitCollection ==
  /\ \/ /\ collections = <<>>
        /\ fresh = TRUE
     \/ /\ \E s \in DistinctSeqs(Media, MaxInitSize) :
             collections = <<[title |-> collection_name, items |-> s]>>
        /\ fresh = FALSE
  /\ mc = NoCall
  /\ added = <<>>

\* A library with no collection, on which manage_collection has not run.
NoCollection ==
  /\ collections = <<>>
  /\ fresh = TRUE
  /\ mc = NoCall
  /\ added = <<>>

(***************************************************************************)
(* The deletion ledger: text-file operations.                              *)
(***************************************************************************)
NL == "\n"

DigitChars == <<"0", "1", "2", "3", "4", "5", "6", "7", "8", "9">>

\* Python's str(n) of a non-negative int: its decimal digits.
RECURSIVE str(_)
str(n) ==
  IF n < 10 THEN <<DigitChars[n + 1]>>
  ELSE str(n \div 10) \o <<DigitChars[(n % 10) + 1]>>

\* Python's `needle in haystack` on strings: a substring test.
StrContains(haystack, needle) ==
  \E i \in 0..(Len(haystack) - Len(needle)) :
    SubSeq(haystack, i + 1, i + Len(needle)) = needle

\* file.readlines(): the lines of the text, each with its line end.
RECURSIVE readlines(_)
readlines(text) ==
  IF text = <<>> THEN <<>>
  ELSE IF \E k \in DOMAIN text : text[k] = NL
       THEN LET k == CHOOSE k \in DOMAIN text :
                       /\ text[k] = NL
                       /\ \A j \in 1..(k - 1) : text[j] # NL
            IN  <<SubSeq(text, 1, k)>> \o
                  readlines(SubSeq(text, k + 1, Len(text)))
       ELSE <<text>>

\* str.splitlines(): the lines without their line ends.
splitlines(text) ==
  LET lines == readlines(text) IN
  [i \in DOMAIN lines |->
     IF lines[i][Len(lines[i])] = NL
     THEN SubSeq(lines[i], 1, Len(lines[i]) - 1)
     ELSE lines[i]]

\* file.writelines(lines) on the truncated file: the lines, concatenated.
RECURSIVE writelines(_)
writelines(lines) ==
  IF lines = <<>> THEN <<>>
  ELSE Head(lines) \o writelines(Tail(lines))

\* trim_file keeping the first max_entries lines instead of the last.
trim_file_KeepFirst(text, max_entries) ==
  LET lines == readlines(text) IN
  IF Len(lines) > max_entries
  THEN writelines(SubSeq(lines, 1, max_entries))
  ELSE text

\* trim_file(file_path, max_entries): keep lines[-max_entries:].
trim_file(text, max_entries) ==
  LET lines == readlines(text) IN
  IF Len(lines) > max_entries
  THEN writelines(PySliceFrom(lines, -max_entries))
  ELSE text

\* An append that is not guarded by any test.
ShouldAppend_Always(text, media_id) == TRUE

\* Line 150: `str(media_id) not in file.read()`, the test that guards the
\* append.
ShouldAppend(text, media_id) == ~StrContains(text, str(media_id))

\* Lines 147-153: the ledger text after the check-then-append.
AppendStep(text, media_id) ==
  IF ShouldAppend(text, media_id)
  THEN text \o str(media_id) \o <<NL>>
  ELSE text

\* handle_deletion_event(media_id): the ledger text it leaves.
handle_deletion_event(text, media_id) ==
  trim_file(AppendStep(text, media_id), MaxLedgerEntries)

\* was_media_deleted(media_id): str(media_id) is one of the file's lines.
was_media_deleted(text, media_id) ==
  str(media_id) \in Range(splitlines(text))

NoLedgerOp == [op |-> "none", id |-> 0, result |-> FALSE]

\* A complete handle_deletion_event call, with the histories it extends.
HandleDeletionEvent ==
  \E media_id \in MediaIds :
    /\ Len(appended) < MaxAppends
    /\ deleted_media_ids' =
         handle_deletion_event(deleted_media_ids, media_id)
    /\ ledgerOp' = [op |-> "record", id |-> media_id, result |-> FALSE]
    /\ called' = called \cup {media_id}
    /\ appended' = IF ShouldAppend(deleted_media_ids, media_id)
                   THEN Append(appended, media_id)
                   ELSE appended
    /\ UNCHANGED <<colVars, hookVars, concVars>>

\* A complete was_media_deleted call.
WasMediaDeleted ==
  \E media_id \in MediaIds :
    /\ ledgerOp' = [op |-> "query", id |-> media_id,
                    result |-> was_media_deleted(deleted_media_ids, media_id)]
    /\ UNCHANGED <<deleted_media_ids, called, appended, colVars, hookVars,
                   concVars>>

\* The ledger after startup's ensure_file_exists on a missing file.
InitLedger ==
  /\ deleted_media_ids = <<>>
  /\ ledgerOp = NoLedgerOp
  /\ called = {}
  /\ appended = <<>>

(***************************************************************************)
(* Webhook payloads.                                                       *)
(***************************************************************************)
EventTypes == {"Download", "EpisodeFileDelete", "MovieFileDelete", ""}

\* data.get('deleteReason'): "None" stands for a payload without the field.
DeleteReasons == {"upgrade", "None"}

\* One element of 'episodes', or the 'movie' object: it may lack its 'id'.
MediaObjs ==
  {[has_id |-> FALSE, id |-> 0]} \cup
  {[has_id |-> TRUE, id |-> i] : i \in EventIds}

\* The 'episodes' field: absent, an empty list, or a list of one episode.
EpisodesFields ==
  {[present |-> FALSE, list |-> <<>>]} \cup
  {[present |-> TRUE, list |-> l] :
     l \in {<<>>} \cup {<<e>> : e \in MediaObjs}}

\* The 'movie' field: absent, or an object.
MovieFields ==
  {[present |-> FALSE, obj |-> [has_id |-> FALSE, id |-> 0]]} \cup
  {[present |-> TRUE, obj |-> m] : m \in MediaObjs}

\* What is_english_dubbed reads: the audio languages of episodeFile and of
\* movieFile and the custom format names (each empty when absent).
DubFields ==
  {[episodeFile |-> {}, movieFile |-> {}, customFormats |-> {}],
   [episodeFile |-> {"eng", "jpn"}, movieFile |-> {}, customFormats |-> {}],
   [episodeFile |-> {}, movieFile |-> {"eng"}, customFormats |-> {}],
   [episodeFile |-> {"jpn"}, movieFile |-> {"eng"}, customFormats |-> {}],
   [episodeFile |-> {"jpn"}, movieFile |-> {},
    customFormats |-> {"Dubs Only"}],
   [episodeFile |-> {}, movieFile |-> {"jpn"},
    customFormats |-> {"Anime Dual Audio", "x265"}],
   [episodeFile |-> {"jpn"}, movieFile |-> {}, customFormats |-> {"x265"}]}

\* An air or release date: absent, not a YYYY-MM-DD date, or a date
\* days_ago days before UTC today (negative: in the future).
DateFields ==
  {[kind |-> "None", days_ago |-> 0], [kind |-> "invalid", days_ago |-> 0]}
  \cup {[kind |-> "date", days_ago |-> d] :
          d \in {-1, 0, MAX_DATE_DIFF, MAX_DATE_DIFF + 1}}

\* is_english_dubbed(data).
is_english_dubbed(dub) ==
  LET audio_languages == IF dub.episodeFile # {} THEN dub.episodeFile
                         ELSE dub.movieFile
      is_dubbed_audio == "eng" \in audio_languages
      is_custom_format ==
        \E cf \in dub.customFormats : cf \in {"Anime Dual Audio", "Dubs Only"}
  IN  is_dubbed_audio \/ is_custom_format

\* The window closed one day early.
is_recent_or_upcoming_release_Exclusive(date) ==
  IF date.kind = "None" THEN FALSE
  ELSE IF date.kind = "invalid" THEN FALSE
  ELSE LET days_diff == date.days_ago
       IN  (0 <= days_diff /\ days_diff < MAX_DATE_DIFF) \/ days_diff < 0

\* is_recent_or_upcoming_release(date_str), on what DateField makes of
\* date_str.
is_recent_or_upcoming_release(date) ==
  IF date.kind = "None" THEN FALSE
  ELSE IF date.kind = "invalid" THEN FALSE
  ELSE LET days_diff == date.days_ago
       IN  (0 <= days_diff /\ days_diff <= MAX_DATE_DIFF) \/ days_diff < 0

(***************************************************************************)
(* is_recent_or_upcoming_release on date strings.  A string is a sequence  *)
(* of characters, a date a record [year, month, day].                      *)
(***************************************************************************)
\* The furthest a generated date lies from today, in days, either way.
MaxDaysApart == 9

IsDigits(seg) ==
  /\ seg # <<>>
  /\ \A i \in DOMAIN seg : \E v \in 0..9 : DigitChars[v + 1] = seg[i]

DigitVal(c) == CHOOSE v \in 0..9 : DigitChars[v + 1] = c

\* int() of a string of digits.
RECURSIVE ToInt(_)
ToInt(seg) ==
  IF seg = <<>> THEN 0
  ELSE 10 * ToInt(SubSeq(seg, 1, Len(seg) - 1)) + DigitVal(seg[Len(seg)])

\* The pieces of the text between the separators.
RECURSIVE Split(_, _)
Split(text, sep) ==
  IF \E k \in DOMAIN text : text[k] = sep
  THEN LET k == CHOOSE k \in DOMAIN text :
                  /\ text[k] = sep
                  /\ \A j \in 1..(k - 1) : text[j] # sep
       IN  <<SubSeq(text, 1, k - 1)>> \o
             Split(SubSeq(text, k + 1, Len(text)), sep)
  ELSE <<text>>

IsLeap(year) ==
  (year % 4 = 0) /\ ((year % 100 # 0) \/ (year % 400 = 0))

DaysInMonth(year, month) ==
  IF month = 2 THEN (IF IsLeap(year) THEN 29 ELSE 28)
  ELSE IF month \in {4, 6, 9, 11} THEN 30
  ELSE 31

\* strptime's %Y: four digits.
YearField(seg) == IsDigits(seg) /\ Len(seg) = 4

\* strptime's %m: 1[0-2], 0[1-9] or [1-9].
MonthField(seg) ==
  IsDigits(seg) /\ Len(seg) \in {1, 2} /\ ToInt(seg) \in 1..12

\* strptime's %d: 3[0-1], [1-2]\d, 0[1-9], [1-9], or a space and [1-9].
DayField(seg) ==
  \/ IsDigits(seg) /\ Len(seg) \in {1, 2} /\ ToInt(seg) \in 1..31
  \/ /\ Len(seg) = 2
     /\ seg[1] = " "
     /\ IsDigits(<<seg[2]>>)
     /\ DigitVal(seg[2]) \in 1..9

ValueError == [ok |-> FALSE, year |-> 0, month |-> 0, day |-> 0]

\* datetime.datetime.strptime(date_str, '%Y-%m-%d').date(): the whole
\* string has to match, and the fields have to make a date of the calendar
\* (year >= 1).
strptime(date_str) ==
  LET f == Split(date_str, "-") IN
  IF Len(f) = 3 /\ YearField(f[1]) /\ MonthField(f[2]) /\ DayField(f[3])
  THEN LET year == ToInt(f[1])
           month == ToInt(f[2])
           day == IF f[3][1] = " " THEN DigitVal(f[3][2]) ELSE ToInt(f[3])
       IN  IF year >= 1 /\ day <= DaysInMonth(year, month)
           THEN [ok |-> TRUE, year |-> year, month |-> month, day |-> day]
           ELSE ValueError
  ELSE ValueError

\* The days of the year before the first of the month.
RECURSIVE DaysBeforeMonth(_, _)
DaysBeforeMonth(year, month) ==
  IF month = 1 THEN 0
  ELSE DaysBeforeMonth(year, month - 1) + DaysInMonth(year, month - 1)

\* date.toordinal(): the day's number, 0001-01-01 being day 1.
toordinal(date) ==
  LET y == date.year - 1 IN
  365 * y + (y \div 4) - (y \div 100) + (y \div 400)
    + DaysBeforeMonth(date.year, date.month) + date.day

\* An argument of the call: None, or a string.
NoneArg == [is_none |-> TRUE, text |-> <<>>]

StrArg(text) == [is_none |-> FALSE, text |-> text]

\* Lines 167-177: what is_recent_or_upcoming_release makes of its argument
\* on the day `today`: no date (`not date_str`), a ValueError, or a date
\* days_diff days before today.
DateField(arg, today) ==
  IF arg.is_none \/ arg.text = <<>>
  THEN [kind |-> "None", days_ago |-> 0]
  ELSE LET release_or_air_date == strptime(arg.text) IN
       IF ~release_or_air_date.ok
       THEN [kind |-> "invalid", days_ago |-> 0]
       ELSE [kind |-> "date",
             days_ago |-> toordinal(today) - toordinal(release_or_air_date)]

(***************************************************************************)
(* The webhook handlers.                                                   *)
(***************************************************************************)
\* The file-delete event of each endpoint.
DeleteEvent(endpoint) ==
  IF endpoint = "sonarr" THEN "EpisodeFileDelete" ELSE "MovieFileDelete"

\* The if / elif chain with the ledger test first.
Classify_LedgerFirst(delete_event, event_type, delete_reason, is_dubbed, deleted, library) ==
  IF deleted THEN "SuppressAsDeleted"
  ELSE IF event_type = delete_event /\ delete_reason = "upgrade" /\ is_dubbed
  THEN "RecordDeletion"
  ELSE IF event_type = "Download" /\ is_dubbed /\ library
  THEN "AttemptAdd"
  ELSE "Skip"

\* sonarr.py:238-248 and radarr.py:146-153: the branch the handler takes.
\* `deleted` is was_media_deleted(id) and `library` is whether the
\* endpoint's library name is set.
Classify(delete_event, event_type, delete_reason, is_dubbed, deleted, library) ==
  IF event_type = delete_event /\ delete_reason = "upgrade" /\ is_dubbed
  THEN "RecordDeletion"
  ELSE IF deleted THEN "SuppressAsDeleted"
  ELSE IF event_type = "Download" /\ is_dubbed /\ library
  THEN "AttemptAdd"
  ELSE "Skip"

\* The gate passing upgrades only.
StartsThread_UpgradeOnly(is_upgrade, is_recent_release) ==
  IF is_upgrade THEN TRUE
  ELSE FALSE

\* process_download_event / process_radarr_download_event: whether the
\* background thread is started.
StartsThread(is_upgrade, is_recent_release) ==
  IF is_upgrade THEN TRUE
  ELSE IF is_recent_release THEN TRUE
  ELSE FALSE

\* The ids a handle_deletion_event(media_id) call evicts from the ledger.
Evicted(text, media_id) ==
  {i \in MediaIds :
     /\ was_media_deleted(text, i)
     /\ ~was_media_deleted(handle_deletion_event(text, media_id), i)}

\* What ev records of a request: the event type as the handler tells it
\* apart (its own file-delete event, "Download", or "other"), whether the
\* delete reason was 'upgrade', is_dubbed, was_media_deleted(id) and whether
\* <<endpoint, id>> was armed when the request arrived, whether the
\* endpoint's library is set, the branches taken, whether a background
\* thread was started, and the response; for an event that reached
\* process_download_event, its is_upgrade and is_recent_release; for an
\* event that reached handle_deletion_event, whether was_media_deleted(id)
\* holds on the ledger the call left; and whether the id was armed through
\* the other endpoint when the request arrived.
NoEvent == [handled |-> FALSE, kind |-> "other",
            upgrade_delete |-> FALSE, is_dubbed |-> FALSE,
            deleted |-> FALSE, armed |-> FALSE, library |-> FALSE,
            taken |-> {}, thread_started |-> FALSE, raised |-> FALSE,
            response |-> 0, is_upgrade |-> FALSE,
            is_recent_release |-> FALSE, recorded |-> FALSE,
            armed_other |-> FALSE]

EventKind(endpoint, event_type) ==
  IF event_type = DeleteEvent(endpoint) THEN "delete"
  ELSE IF event_type = "Download" THEN "Download"
  ELSE "other"

\* The handler raised before it read the ledger: Flask answers 500.
Raise(endpoint, event_type) ==
  /\ ev' = [NoEvent EXCEPT !.handled = TRUE,
                           !.kind = EventKind(endpoint, event_type),
                           !.raised = TRUE, !.response = 500]
  /\ UNCHANGED <<deleted_media_ids, armed>>

\* The handler from the classification on (sonarr.py:238-250,
\* radarr.py:146-155), for the fields it extracted and for
\* deleted = was_media_deleted(media_id) on the ledger as it stands.  The
\* histories of SpecLedger's direct calls are not extended here.
Handle(endpoint, library, event_type, delete_reason, is_dubbed, media_id, deleted) ==
  \E taken \in {Classify(DeleteEvent(endpoint), event_type, delete_reason,
                         is_dubbed, deleted, library)} :
  \E seen \in {[NoEvent EXCEPT
                  !.handled = TRUE,
                  !.kind = EventKind(endpoint, event_type),
                  !.upgrade_delete = (delete_reason = "upgrade"),
                  !.is_dubbed = is_dubbed,
                  !.deleted = deleted,
                  !.armed = (<<endpoint, media_id>> \in armed),
                  !.armed_other =
                    (\E a \in armed : a[1] # endpoint /\ a[2] = media_id),
                  !.library = library,
                  !.taken = {taken}, !.response = 200]} :
    CASE taken = "RecordDeletion" ->
           /\ deleted_media_ids' =
                handle_deletion_event(deleted_media_ids, media_id)
           /\ armed' = {a \in armed \cup {<<endpoint, media_id>>} :
                          a[2] \notin Evicted(deleted_media_ids, media_id)}
           /\ ev' = [seen EXCEPT
                       !.recorded =
                         was_media_deleted(
                           handle_deletion_event(deleted_media_ids, media_id),
                           media_id)]
      [] taken = "SuppressAsDeleted" ->
           /\ ev' = seen
           /\ UNCHANGED <<deleted_media_ids, armed>>
      [] taken = "AttemptAdd" ->
           /\ \E is_upgrade \in BOOLEAN,
                 is_recent_release \in
                   {is_recent_or_upcoming_release(date) :
                      date \in DateFields} :
                ev' = [seen EXCEPT
                         !.is_upgrade = is_upgrade,
                         !.is_recent_release = is_recent_release,
                         !.thread_started =
                           StartsThread(is_upgrade, is_recent_release)]
           /\ UNCHANGED <<deleted_media_ids, armed>>
      [] taken = "Skip" ->
           /\ ev' = seen
           /\ UNCHANGED <<deleted_media_ids, armed>>

\* The first element of the 'episodes' list the handler reads
\* (data.get('episodes', [{}])): <<>> stands for the IndexError of [0] on an
\* empty list.
FirstEpisode(episodes) ==
  LET list == IF episodes.present THEN episodes.list
              ELSE <<[has_id |-> FALSE, id |-> 0]>>
  IN  IF list = <<>> THEN <<>> ELSE <<list[1]>>

\* .get('id', 0) on an episode or movie object.
IdOf(obj) == IF obj.has_id THEN obj.id ELSE 0

\* sonarr_webhook(request).  The payload fields range over EventTypes,
\* DeleteReasons, EpisodesFields and DubFields; the handler depends on the
\* last two only through the id and is_dubbed values it extracts.
SonarrWebhook ==
  \E first \in {FirstEpisode(e) : e \in EpisodesFields} :
    /\ IF first = <<>>
       THEN \E event_type \in EventTypes : Raise("sonarr", event_type)
       ELSE \E deleted \in
                {was_media_deleted(deleted_media_ids, IdOf(first[1]))} :
            \E event_type \in EventTypes,
               delete_reason \in DeleteReasons,
               is_dubbed \in {is_english_dubbed(d) : d \in DubFields} :
              Handle("sonarr", config.SONARR_LIBRARY, event_type,
                     delete_reason, is_dubbed, IdOf(first[1]), deleted)
    /\ UNCHANGED <<colVars, ledgerOp, called, appended, config, concVars>>

\* radarr_webhook(request).
RadarrWebhook ==
  \E movie_id \in {IdOf(m.obj) : m \in MovieFields} :
  \E deleted \in {was_media_deleted(deleted_media_ids, movie_id)} :
  \E event_type \in EventTypes, delete_reason \in DeleteReasons,
     is_dubbed \in {is_english_dubbed(d) : d \in DubFields} :
    /\ Handle("radarr", config.RADARR_LIBRARY, event_type, delete_reason,
              is_dubbed, movie_id, deleted)
    /\ UNCHANGED <<colVars, ledgerOp, called, appended, config, concVars>>

\* No request handled yet; config.py:78 demands one library at least.
InitHook ==
  /\ config \in {c \in [SONARR_LIBRARY : BOOLEAN, RADARR_LIBRARY : BOOLEAN] :
                   c.SONARR_LIBRARY \/ c.RADARR_LIBRARY}
  /\ ev = NoEvent
  /\ armed = {}

\* The webhook variables of a process that serves no request.
NoHook ==
  /\ config = [SONARR_LIBRARY |-> TRUE, RADARR_LIBRARY |-> TRUE]
  /\ ev = NoEvent
  /\ armed = {}

(***************************************************************************)
(* The deletion ledger under concurrent callers.  Every call opens the     *)
(* file itself, so each thread has its own open file, its own flock and    *)
(* its own write buffer; a buffered write reaches the file when the `with` *)
(* block closes the file, which is after the flock(LOCK_UN) inside it.     *)
(***************************************************************************)
\* Request threads that run handle_deletion_event, and one that runs
\* was_media_deleted.
Writers == {"w1", "w2"}

Readers == {"r"}

Threads == Writers \cup Readers

\* The ids the concurrent calls are made with: enough distinct ids to
\* overfill the ledger, the text of one containing that of two others.
ConcIds == {1, 2, 12}

\* The handle_deletion_event calls a behaviour starts at most.
MaxConcCalls == MaxLedgerEntries + 2

\* A thread outside any ledger call.  buf is the open file's pending
\* buffered write, lines what trim_file's readlines returned, result what
\* was_media_deleted returned, and in_window whether, when the reader read
\* the file, a trim_file of another thread had truncated the file and not
\* yet written back the lines it keeps, the reader's id among them.
IdleThread == [pc |-> "idle", id |-> 0, buf |-> <<>>, lines |-> <<>>,
               result |-> FALSE, in_window |-> FALSE]

\* flock(LOCK_EX) returns once no other open file holds a lock.
CanLockEX(t) == \A u \in Threads \ {t} : flock[u] = "UN"

\* flock(LOCK_SH) returns once no other open file holds an exclusive lock.
CanLockSH(t) == \A u \in Threads \ {t} : flock[u] # "EX"

\* write(2) on a file opened "a+" (O_APPEND): the data goes to the end.
WriteAppend(text, data) == text \o data

\* write(2) at offset 0 of a file opened "r+": the data replaces the first
\* Len(data) characters and extends the file when it is shorter.
WriteAtStart(text, data) == data \o SubSeq(text, Len(data) + 1, Len(text))

\* shared.py:141: a request thread enters handle_deletion_event(media_id)
\* and opens the file "a+" (line 147).  Concurrent calls are for different
\* ids.
HdeCall(t) ==
  \E media_id \in ConcIds :
    /\ lt[t].pc = "idle"
    /\ ncalls < MaxConcCalls
    /\ \A u \in Writers \ {t} : lt[u].pc = "idle" \/ lt[u].id # media_id
    /\ lt' = [lt EXCEPT ![t] = [IdleThread EXCEPT !.pc = "h_lock",
                                                  !.id = media_id]]
    /\ ncalls' = ncalls + 1
    /\ UNCHANGED <<deleted_media_ids, appended, flock, ledgerConcFrame>>

\* Line 148: fcntl.flock(file.fileno(), fcntl.LOCK_EX).
HdeLock(t) ==
  /\ lt[t].pc = "h_lock"
  /\ CanLockEX(t)
  /\ flock' = [flock EXCEPT ![t] = "EX"]
  /\ lt' = [lt EXCEPT ![t].pc = "h_check"]
  /\ UNCHANGED <<deleted_media_ids, appended, ncalls, ledgerConcFrame>>

\* Lines 149-152: seek(0), read the whole file, and file.write the id into
\* the buffer when its text is not found.
HdeCheck(t) ==
  /\ lt[t].pc = "h_check"
  /\ lt' = [lt EXCEPT ![t].pc = "h_unlock",
                      ![t].buf = IF ShouldAppend(deleted_media_ids, lt[t].id)
                                 THEN str(lt[t].id) \o <<NL>>
                                 ELSE <<>>]
  /\ UNCHANGED <<deleted_media_ids, appended, flock, ncalls, ledgerConcFrame>>

\* Line 153: fcntl.flock(file.fileno(), fcntl.LOCK_UN).
HdeUnlock(t) ==
  /\ lt[t].pc = "h_unlock"
  /\ flock' = [flock EXCEPT ![t] = "UN"]
  /\ lt' = [lt EXCEPT ![t].pc = "h_close"]
  /\ UNCHANGED <<deleted_media_ids, appended, ncalls, ledgerConcFrame>>

\* The end of the `with` block of line 147: close() flushes the buffer, and
\* the id reaches the end of the file.  Then trim_file opens the file "r+"
\* (lines 155, 131).
HdeClose(t) ==
  /\ lt[t].pc = "h_close"
  /\ deleted_media_ids' = WriteAppend(deleted_media_ids, lt[t].buf)
  /\ appended' = IF lt[t].buf # <<>> THEN Append(appended, lt[t].id)
                 ELSE appended
  /\ lt' = [lt EXCEPT ![t].pc = "t_lock", ![t].buf = <<>>]
  /\ UNCHANGED <<flock, ncalls, ledgerConcFrame>>

\* Line 132: fcntl.flock(file.fileno(), fcntl.LOCK_EX).
TrimLock(t) ==
  /\ lt[t].pc = "t_lock"
  /\ CanLockEX(t)
  /\ flock' = [flock EXCEPT ![t] = "EX"]
  /\ lt' = [lt EXCEPT ![t].pc = "t_read"]
  /\ UNCHANGED <<deleted_media_ids, appended, ncalls, ledgerConcFrame>>

\* Lines 133-134: lines = file.readlines() and the test of their number.
TrimRead(t) ==
  /\ lt[t].pc = "t_read"
  /\ LET lines == readlines(deleted_media_ids) IN
     lt' = [lt EXCEPT ![t].lines = lines,
                      ![t].pc = IF Len(lines) > MaxLedgerEntries
                                THEN "t_truncate" ELSE "t_unlock"]
  /\ UNCHANGED <<deleted_media_ids, appended, flock, ncalls, ledgerConcFrame>>

\* Lines 135-137: seek(0), truncate() empties the file at once, and
\* writelines puts the kept lines into the buffer.
TrimTruncate(t) ==
  /\ lt[t].pc = "t_truncate"
  /\ deleted_media_ids' = <<>>
  /\ lt' = [lt EXCEPT ![t].pc = "t_unlock",
                      ![t].buf = writelines(PySliceFrom(lt[t].lines,
                                                        -MaxLedgerEntries))]
  /\ UNCHANGED <<appended, flock, ncalls, ledgerConcFrame>>

\* Line 138: fcntl.flock(file.fileno(), fcntl.LOCK_UN).
TrimUnlock(t) ==
  /\ lt[t].pc = "t_unlock"
  /\ flock' = [flock EXCEPT ![t] = "UN"]
  /\ lt' = [lt EXCEPT ![t].pc = "t_close"]
  /\ UNCHANGED <<deleted_media_ids, appended, ncalls, ledgerConcFrame>>

\* The end of the `with` block of line 131: close() flushes the kept lines
\* to offset 0, and handle_deletion_event returns.
TrimClose(t) ==
  /\ lt[t].pc = "t_close"
  /\ deleted_media_ids' = WriteAtStart(deleted_media_ids, lt[t].buf)
  /\ lt' = [lt EXCEPT ![t].pc = "idle", ![t].buf = <<>>,
                      ![t].lines = <<>>]
  /\ UNCHANGED <<appended, flock, ncalls, ledgerConcFrame>>

\* shared.py:181: a thread enters was_media_deleted(media_id), opens the
\* file "r" and takes the shared lock (lines 191-192).
WmdLock(t) ==
  \E media_id \in ConcIds :
    /\ lt[t].pc \in {"idle", "returned"}
    /\ CanLockSH(t)
    /\ flock' = [flock EXCEPT ![t] = "SH"]
    /\ lt' = [lt EXCEPT ![t] = [IdleThread EXCEPT !.pc = "r_read",
                                                  !.id = media_id]]
    /\ UNCHANGED <<deleted_media_ids, appended, ncalls, ledgerConcFrame>>

\* Lines 193-196: read the file, release the lock, and return whether the
\* id is one of the lines.
WmdRead(t) ==
  /\ lt[t].pc = "r_read"
  /\ flock' = [flock EXCEPT ![t] = "UN"]
  /\ lt' = [lt EXCEPT
              ![t].pc = "returned",
              ![t].result = was_media_deleted(deleted_media_ids, lt[t].id),
              ![t].in_window =
                \E w \in Writers :
                  /\ lt[w].pc = "t_close"
                  /\ lt[w].buf # <<>>
                  /\ str(lt[t].id) \in Range(splitlines(lt[w].buf))]
  /\ UNCHANGED <<deleted_media_ids, appended, ncalls, ledgerConcFrame>>

\* No thread is in a ledger call.
NoThreads ==
  /\ flock = [t \in Threads |-> "UN"]
  /\ lt = [t \in Threads |-> IdleThread]
  /\ ncalls = 0

(***************************************************************************)
(* Background threads.  A Download event that passes the gate of           *)
(* process_download_event starts a thread on the endpoint's handler, which *)
(* resolves the media in the catalog and runs manage_collection; the       *)
(* request thread goes on to return its response.  Every catalog call is   *)
(* one step, and calls of different threads interleave.                    *)
(***************************************************************************)
Tasks == {"t1", "t2"}

\* A thread that was not started.  col is the collection manage_collection
\* found (its place in the listing, 0 before it has one, -1 once the
\* server dropped it), items_to_remove what line 114 computed, fault why a
\* catalog call raised ("none", "injected" for a failure of the catalog,
\* "race" for a call the other thread's changes made fail), calls the
\* catalog calls issued, after_fault those issued after one raised, and
\* escaped whether an exception left the thread's target function.
NoTask == [pc |-> "unused", media |-> 0, col |-> 0,
           items_to_remove |-> <<>>, outcome |-> "none", fault |-> "none",
           calls |-> 0, after_fault |-> 0, escaped |-> FALSE]

NoRequest == [pc |-> "idle", task |-> "t1", response |-> 0,
              calls_at_response |-> 0]

\* The thread's pc after a catalog call raised and the handler retried the
\* reconcile instead of ending.
AfterFault_Retry == "list"

\* sonarr.py:122-123, radarr.py:61-62: `except Exception` around the whole
\* handler logs the error, and the handler returns.
AfterFault == "ended"

\* The record of a thread whose catalog call raised.
Faulted(b, fault) ==
  [b EXCEPT !.pc = AfterFault, !.fault = fault, !.outcome = "error",
            !.calls = b.calls + 1]

\* The record of a thread that issues one more catalog call and goes on.
Called(b, pc) ==
  [b EXCEPT !.pc = pc, !.calls = b.calls + 1,
            !.after_fault = IF b.fault # "none" THEN b.after_fault + 1
                            ELSE b.after_fault]

\* What another thread's handle becomes when the server drops the
\* collection listed at place i.
Shift(b, i) ==
  IF b.col = i THEN [b EXCEPT !.col = -1]
  ELSE IF b.col > i THEN [b EXCEPT !.col = b.col - 1]
  ELSE b

\* The pcs at which the thread's next step is a catalog call.
CatalogPcs == {"start", "list", "create", "items1", "add", "move", "len",
               "items2", "remove"}

\* The pcs at which the call is made on the collection object.
CollectionPcs == {"items1", "add", "move", "len", "items2", "remove"}

\* What a step of a background thread or of the request thread leaves
\* alone besides the collections and the threads.
taskFrame ==
  <<mc, added, fresh, ledgerVars, hookVars, lockVars, cols0, pureVars,
    moreVars>>

\* sonarr.py:166-169, radarr.py:93: threading.Thread(target=...).start() in
\* the request thread.
Dispatch(t) ==
  /\ req.pc \in {"idle", "responded"}
  /\ bg[t].pc = "unused"
  /\ bg' = [bg EXCEPT ![t] = [NoTask EXCEPT !.pc = "start"]]
  /\ req' = [NoRequest EXCEPT !.pc = "started", !.task = t]
  /\ UNCHANGED <<collections, taskFrame>>

\* The response of a handler that waits for the thread and reports its
\* failure.
ResponseOf_TaskOutcome(b) == IF b.fault # "none" THEN 500 ELSE 200

\* The response the request thread returns, whatever the thread b it
\* started has done by then.
ResponseOf(b) == 200

\* sonarr.py:250, radarr.py:155: return "Webhook received", 200, right
\* after the thread was started.
Respond ==
  /\ req.pc = "started"
  /\ req' = [req EXCEPT !.pc = "responded",
                        !.response = ResponseOf(bg[req.task]),
                        !.calls_at_response = bg[req.task].calls]
  /\ UNCHANGED <<collections, bg, taskFrame>>

\* sonarr.py:117-120, radarr.py:58-59: get_episode_from_data or
\* get_movie_from_data returns a catalog item, or None.
Resolve(t) ==
  /\ bg[t].pc = "start"
  /\ \/ \E media \in Media :
          bg' = [bg EXCEPT ![t] = [Called(bg[t], "list")
                                     EXCEPT !.media = media]]
     \/ bg' = [bg EXCEPT ![t] = [Called(bg[t], "ended")
                                   EXCEPT !.outcome = "not_found"]]
  /\ UNCHANGED <<collections, req, taskFrame>>

\* The catalog call the thread is about to make raises.
Fail(t) ==
  /\ bg[t].pc \in CatalogPcs
  /\ bg' = [bg EXCEPT ![t] = Faulted(bg[t], "injected")]
  /\ UNCHANGED <<collections, req, taskFrame>>

\* A call on a collection the server no longer has raises.
Gone(t) ==
  /\ bg[t].pc \in CollectionPcs
  /\ bg[t].col = -1
  /\ bg' = [bg EXCEPT ![t] = Faulted(bg[t], "race")]
  /\ UNCHANGED <<collections, req, taskFrame>>

\* shared.py:83-90: list the section's collections and look for the title.
List(t) ==
  /\ bg[t].pc = "list"
  /\ LET i == FindCollection(collections, collection_name) IN
     bg' = [bg EXCEPT ![t] = [Called(bg[t], IF i = 0 THEN "create"
                                            ELSE "items1")
                                EXCEPT !.col = i]]
  /\ UNCHANGED <<collections, req, taskFrame>>

\* shared.py:92-95: createCollection, and return.
Create(t) ==
  /\ bg[t].pc = "create"
  /\ collections' = createCollection(collections, bg[t].media)
  /\ bg' = [bg EXCEPT ![t] = [Called(bg[t], "ended")
                                EXCEPT !.outcome = "ok"]]
  /\ UNCHANGED <<req, taskFrame>>

\* shared.py:98: `media not in collection.items()`.
Items1(t) ==
  /\ bg[t].pc = "items1"
  /\ bg[t].col > 0
  /\ bg' = [bg EXCEPT ![t] =
              Called(bg[t],
                     IF bg[t].media \in Range(collections[bg[t].col].items)
                     THEN "len" ELSE "add")]
  /\ UNCHANGED <<collections, req, taskFrame>>

\* shared.py:100: collection.addItems([media]).  An item the collection
\* already holds is not added twice: membership is a tag on the item.
Add(t) ==
  /\ bg[t].pc = "add"
  /\ bg[t].col > 0
  /\ collections' =
       [collections EXCEPT ![bg[t].col].items =
          IF bg[t].media \in Range(@) THEN @ ELSE addItems(@, bg[t].media)]
  /\ bg' = [bg EXCEPT ![t] = Called(bg[t], "move")]
  /\ UNCHANGED <<req, taskFrame>>

\* shared.py:102: collection.moveItem(media, after=None).  For an item that
\* is no longer in the collection the server changes nothing, and the call
\* returns or raises.
Move(t) ==
  /\ bg[t].pc = "move"
  /\ bg[t].col > 0
  /\ IF bg[t].media \in Range(collections[bg[t].col].items)
     THEN /\ collections' =
               [collections EXCEPT ![bg[t].col].items =
                  moveItem(@, bg[t].media)]
          /\ bg' = [bg EXCEPT ![t] = Called(bg[t], "len")]
     ELSE /\ UNCHANGED collections
          /\ \/ bg' = [bg EXCEPT ![t] = Called(bg[t], "len")]
             \/ bg' = [bg EXCEPT ![t] = Faulted(bg[t], "race")]
  /\ UNCHANGED <<req, taskFrame>>

\* shared.py:108: `len(collection.items()) >= MAX_COLLECTION_SIZE`.
LenCheck(t) ==
  /\ bg[t].pc = "len"
  /\ bg[t].col > 0
  /\ bg' = [bg EXCEPT ![t] =
              IF Len(collections[bg[t].col].items) >= MAX_COLLECTION_SIZE
              THEN Called(bg[t], "items2")
              ELSE [Called(bg[t], "ended") EXCEPT !.outcome = "ok"]]
  /\ UNCHANGED <<collections, req, taskFrame>>

\* shared.py:111-114: items = collection.items() and the slice to remove.
Items2(t) ==
  /\ bg[t].pc = "items2"
  /\ bg[t].col > 0
  /\ bg' = [bg EXCEPT ![t] =
              [Called(bg[t], "remove") EXCEPT
                 !.items_to_remove =
                   ItemsToRemove(collections[bg[t].col].items)]]
  /\ UNCHANGED <<collections, req, taskFrame>>

\* shared.py:121: collection.removeItems(items_to_remove), and return.
Remove(t) ==
  /\ bg[t].pc = "remove"
  /\ bg[t].col > 0
  /\ LET i == bg[t].col
         left == removeItems(collections[i].items, bg[t].items_to_remove)
     IN  \E cols \in Stored(collections, i, left) :
           /\ collections' = cols
           /\ bg' = [u \in Tasks |->
                       IF u = t
                       THEN [Called(bg[t], "ended") EXCEPT !.outcome = "ok"]
                       ELSE IF Len(cols) < Len(collections)
                       THEN Shift(bg[u], i)
                       ELSE bg[u]]
  /\ UNCHANGED <<req, taskFrame>>

\* The libraries the threads start on: no "Latest Dubs" collection, or one
\* that holds the items 1..k in this order.
InitTasks ==
  /\ collections \in
       {<<>>} \cup {<<[title |-> collection_name,
                       items |-> [j \in 1..k |-> j]]>> : k \in 0..MaxInitSize}
  /\ fresh = (collections = <<>>)
  /\ mc = NoCall
  /\ added = <<>>
  /\ cols0 = collections
  /\ bg = [t \in Tasks |-> NoTask]
  /\ req = NoRequest

\* No background thread was started.
NoTasks ==
  /\ bg = [t \in Tasks |-> NoTask]
  /\ req = NoRequest
  /\ cols0 = <<>>

(***************************************************************************)
(* The calls of is_recent_or_upcoming_release the model makes: dates       *)
(* counted day by day from today and written out, and strings that are no  *)
(* date.                                                                   *)
(***************************************************************************)
Date(year, month, day) ==
  [ok |-> TRUE, year |-> year, month |-> month, day |-> day]

\* UTC today: the days of the examples, and days next to the end of a
\* month, of February in leap and other years, and of the year.
Todays ==
  {Date(2024, 1, 3), Date(2024, 1, 10), Date(2024, 3, 2), Date(2023, 3, 2),
   Date(2100, 3, 1), Date(2024, 12, 30)}

NextDay(date) ==
  IF date.day < DaysInMonth(date.year, date.month)
  THEN [date EXCEPT !.day = date.day + 1]
  ELSE IF date.month < 12
  THEN [date EXCEPT !.month = date.month + 1, !.day = 1]
  ELSE [date EXCEPT !.year = date.year + 1, !.month = 1, !.day = 1]

PrevDay(date) ==
  IF date.day > 1 THEN [date EXCEPT !.day = date.day - 1]
  ELSE IF date.month > 1
  THEN [date EXCEPT !.month = date.month - 1,
                    !.day = DaysInMonth(date.year, date.month - 1)]
  ELSE [date EXCEPT !.year = date.year - 1, !.month = 12, !.day = 31]

\* The date k days before `date` (after it, for a negative k).
RECURSIVE DaysBefore(_, _)
DaysBefore(date, k) ==
  IF k = 0 THEN date
  ELSE IF k > 0 THEN DaysBefore(PrevDay(date), k - 1)
  ELSE DaysBefore(NextDay(date), k + 1)

Pad2(n) == IF n < 10 THEN <<"0">> \o str(n) ELSE str(n)

\* The date written YYYY-MM-DD, or with month and day not padded.
Format(date, padded) ==
  IF padded
  THEN str(date.year) \o <<"-">> \o Pad2(date.month) \o <<"-">>
         \o Pad2(date.day)
  ELSE str(date.year) \o <<"-">> \o str(date.month) \o <<"-">>
         \o str(date.day)

\* Strings that are no date of the calendar written year-month-day.
NotDates ==
  {str(2024) \o <<"-">> \o str(13) \o <<"-">> \o Pad2(1),
   str(2024) \o <<"-">> \o Pad2(2) \o <<"-">> \o str(30),
   str(2023) \o <<"-">> \o Pad2(2) \o <<"-">> \o str(29),
   str(2100) \o <<"-">> \o Pad2(2) \o <<"-">> \o str(29),
   str(2024) \o <<"-">> \o Pad2(0) \o <<"-">> \o str(10),
   str(2024) \o <<"-">> \o Pad2(1) \o <<"-">> \o Pad2(0),
   str(2024) \o <<"-">> \o Pad2(1) \o <<"-">> \o str(32),
   Pad2(0) \o Pad2(0) \o <<"-">> \o Pad2(1) \o <<"-">> \o Pad2(1),
   str(24) \o <<"-">> \o Pad2(1) \o <<"-">> \o Pad2(3),
   str(2024) \o <<"/">> \o Pad2(1) \o <<"/">> \o Pad2(3),
   str(2024) \o Pad2(1) \o Pad2(3),
   str(2024) \o <<"-">> \o Pad2(1),
   str(2024) \o <<"-">> \o Pad2(1) \o <<"-">> \o Pad2(3)
     \o <<"T">> \o Pad2(0) \o <<":">> \o Pad2(0),
   Pad2(3) \o <<"-">> \o Pad2(1) \o <<"-">> \o str(2024),
   <<"s", "o", "o", "n">>}

\* The arguments tried on the day `today`, each with what it is: absent, no
\* date, or the date k days before today.
RecencyInputs(today) ==
  {[arg |-> a, class |-> "absent", k |-> 0] : a \in {NoneArg, StrArg(<<>>)}}
  \cup {[arg |-> StrArg(t), class |-> "invalid", k |-> 0] : t \in NotDates}
  \cup {[arg |-> StrArg(Format(DaysBefore(today, k), padded)),
         class |-> "date", k |-> k] :
          k \in (-MaxDaysApart)..MaxDaysApart, padded \in BOOLEAN}

NoRecency == [today |-> Date(2024, 1, 3), arg |-> NoneArg,
              class |-> "absent", k |-> 0, called |-> FALSE,
              result |-> FALSE]

\* is_recent_or_upcoming_release(date_str), called on the day rc.today.
IsRecentCall ==
  /\ ~rc.called
  /\ rc' = [rc EXCEPT
              !.called = TRUE,
              !.result =
                is_recent_or_upcoming_release(DateField(rc.arg, rc.today))]
  /\ UNCHANGED <<colVars, ledgerVars, hookVars, lockVars, taskVars, fz,
                 moreVars>>

InitRecency ==
  rc \in UNION {{[NoRecency EXCEPT !.today = today, !.arg = i.arg,
                                   !.class = i.class, !.k = i.k] :
                   i \in RecencyInputs(today)} : today \in Todays}

(***************************************************************************)
(* get_fuzzy_match.  The similarity scorer (rapidfuzz) is a function from  *)
(* titles to scores 0..100 for the query at hand.                          *)
(***************************************************************************)
\* The default of the score_cutoff parameter (shared.py:39).
score_cutoff == 75

\* The most items the library section holds.
MaxItems == 3

Titles == {"Attack on Titan", "Attack on Titan: Final Season"}

\* The scores a title may get: below, at and above the cutoff.
Scores == {score_cutoff - 1, score_cutoff, score_cutoff + 15}

\* The libraries: up to MaxItems items, item i having key i and a title.
RECURSIVE TitleSeqs(_)
TitleSeqs(n) ==
  IF n = 0 THEN {<<>>}
  ELSE TitleSeqs(n - 1) \cup
         {Append(q, title) : q \in {p \in TitleSeqs(n - 1) : Len(p) = n - 1},
                             title \in Titles}

\* extractOne returning the first title that reaches the cutoff.
extractOne_FirstAbove(titles, score, cutoff) ==
  IF \E i \in DOMAIN titles : score[titles[i]] >= cutoff
  THEN CHOOSE i \in DOMAIN titles :
         /\ score[titles[i]] >= cutoff
         /\ \A j \in 1..(i - 1) : score[titles[j]] < cutoff
  ELSE 0

\* process.extractOne(query_title, titles, score_cutoff=score_cutoff): the
\* place of the best-scoring title, the first of them when several score
\* the same, among those that reach the cutoff; 0 for None.
extractOne(titles, score, cutoff) ==
  IF \E i \in DOMAIN titles : score[titles[i]] >= cutoff
  THEN CHOOSE i \in DOMAIN titles :
         /\ score[titles[i]] >= cutoff
         /\ \A j \in DOMAIN titles : score[titles[j]] <= score[titles[i]]
         /\ \A j \in 1..(i - 1) : score[titles[j]] < score[titles[i]]
  ELSE 0

\* library_section.get(title): the first item with that title.
get(titles, title) ==
  CHOOSE i \in DOMAIN titles :
    /\ titles[i] = title
    /\ \A j \in 1..(i - 1) : titles[j] # title

\* get_fuzzy_match(library_section, query_title): the key of the item
\* returned, 0 for None.
get_fuzzy_match(titles, score) ==
  LET result == extractOne(titles, score, score_cutoff) IN
  IF result # 0 /\ score[titles[result]] >= score_cutoff
  THEN get(titles, titles[result])
  ELSE 0

NoFuzzy == [titles |-> <<>>, score |-> [t \in Titles |-> 0],
            called |-> FALSE, result |-> 0]

FuzzyCall ==
  /\ ~fz.called
  /\ fz' = [fz EXCEPT !.called = TRUE,
                      !.result = get_fuzzy_match(fz.titles, fz.score)]
  /\ UNCHANGED <<colVars, ledgerVars, hookVars, lockVars, taskVars, rc,
                 moreVars>>

InitFuzzy ==
  fz \in {[NoFuzzy EXCEPT !.titles = titles, !.score = score] :
            titles \in TitleSeqs(MaxItems), score \in [Titles -> Scores]}

\* No call of the two functions.
NoPure ==
  /\ rc = NoRecency
  /\ fz = NoFuzzy

(***************************************************************************)
(* get_episode_from_data (sonarr.py:25-99), one catalog call per step.     *)
(* The catalog answers each call as it pleases.                            *)
(***************************************************************************)
\* sonarr.py:118: the handler passes max_retries=3.
max_retries == 3

SearchAnswers == {"exact", "no_exact", "NotFound", "error"}

FuzzyAnswers == {"show", "none", "error"}

EpisodeAnswers == {"found", "NotFound", "error"}

NoResolveCall ==
  [pc |-> "unused", retries |-> 0, show |-> "none", sections |-> 0,
   searches |-> 0, fuzzies |-> 0, lookups |-> 0, result |-> "none"]

\* A loop that goes on until the show is found.
SearchAgain_UntilFound(retries, show) == show = "none"

\* Line 51: `while retries < max_retries and not show`.
SearchAgain(retries, show) == retries < max_retries /\ show = "none"

\* Line 84: `while retries < max_retries`.
LookupAgain(retries) == retries < max_retries

\* sonarr.py:117: the background thread calls get_episode_from_data.
GeCall ==
  /\ ge.pc = "unused"
  /\ ge' = [ge EXCEPT !.pc = "section"]
  /\ answers' = answers
  /\ UNCHANGED <<colVars, ledgerVars, hookVars, lockVars, taskVars,
                 pureVars, serverVars, connectVars>>

\* Line 47: plex.library.section(LIBRARY_NAME), outside every try block, and
\* lines 48-51: the first test of the search loop.
GeSection ==
  \E a \in {"section", "error"} :
    /\ ge.pc = "section"
    /\ answers' = Append(answers, a)
    /\ ge' = IF a = "error"
             THEN [ge EXCEPT !.pc = "returned", !.result = "raised",
                             !.sections = @ + 1]
             ELSE [ge EXCEPT !.pc = IF SearchAgain(0, "none") THEN "search"
                                    ELSE "fuzzy",
                             !.sections = @ + 1]
    /\ UNCHANGED <<colVars, ledgerVars, hookVars, lockVars, taskVars,
                   pureVars, serverVars, connectVars>>

\* Lines 52-69: one pass of the search loop.  An exact match breaks out of
\* the loop; no exact match and NotFound sleep and count a retry; any other
\* exception leaves the function.
GeSearch ==
  \E a \in SearchAnswers :
    /\ ge.pc = "search"
    /\ answers' = Append(answers, a)
    /\ ge' =
         CASE a = "exact" ->
                [ge EXCEPT !.pc = IF LookupAgain(0) THEN "episode"
                                  ELSE "returned",
                           !.result = IF LookupAgain(0) THEN "none"
                                      ELSE "None",
                           !.show = "exact", !.retries = 0,
                           !.searches = @ + 1]
           [] a = "error" ->
                [ge EXCEPT !.pc = "returned", !.result = "raised",
                           !.searches = @ + 1]
           [] OTHER ->
                [ge EXCEPT !.pc = IF SearchAgain(ge.retries + 1, "none")
                                  THEN "search" ELSE "fuzzy",
                           !.retries = @ + 1,
                           !.searches = @ + 1]
    /\ UNCHANGED <<colVars, ledgerVars, hookVars, lockVars, taskVars,
                   pureVars, serverVars, connectVars>>

\* Lines 72-83: the fuzzy fallback, when the loop left show unset.
GeFuzzy ==
  \E a \in FuzzyAnswers :
    /\ ge.pc = "fuzzy"
    /\ answers' = Append(answers, a)
    /\ ge' =
         CASE a = "show" ->
                [ge EXCEPT !.pc = IF LookupAgain(0) THEN "episode"
                                  ELSE "returned",
                           !.result = IF LookupAgain(0) THEN "none"
                                      ELSE "None",
                           !.show = "fuzzy", !.retries = 0,
                           !.fuzzies = @ + 1]
           [] a = "none" ->
                [ge EXCEPT !.pc = "returned", !.result = "None",
                           !.fuzzies = @ + 1]
           [] OTHER ->
                [ge EXCEPT !.pc = "returned", !.result = "raised",
                           !.fuzzies = @ + 1]
    /\ UNCHANGED <<colVars, ledgerVars, hookVars, lockVars, taskVars,
                   pureVars, serverVars, connectVars>>

\* Lines 85-99: one pass of the episode loop.  NotFound sleeps, any other
\* exception is logged, both count a retry; after the last one the function
\* logs and returns None.
GeEpisode ==
  \E a \in EpisodeAnswers :
    /\ ge.pc = "episode"
    /\ answers' = Append(answers, a)
    /\ ge' =
         IF a = "found"
         THEN [ge EXCEPT !.pc = "returned", !.result = "episode",
                         !.lookups = @ + 1]
         ELSE [ge EXCEPT !.pc = IF LookupAgain(ge.retries + 1)
                                THEN "episode" ELSE "returned",
                         !.result = IF LookupAgain(ge.retries + 1)
                                    THEN "none" ELSE "None",
                         !.retries = @ + 1,
                         !.lookups = @ + 1]
    /\ UNCHANGED <<colVars, ledgerVars, hookVars, lockVars, taskVars,
                   pureVars, serverVars, connectVars>>

NoResolve ==
  /\ ge = NoResolveCall
  /\ answers = <<>>

(***************************************************************************)
(* The serving process: app.py creates the ledger file when missing, then  *)
(* the two endpoints handle requests one after the other while the         *)
(* background threads they started run their catalog calls.                *)
(***************************************************************************)
\* The catalog item a media id resolves to.
MediaOf(media_id) == IF media_id = 12 THEN 3 ELSE media_id

\* An ensure_file_exists that opens the file for writing.
ensure_file_exists_Truncate(present, text) == <<>>

\* config.py:35-37: the text of the file after ensure_file_exists; a file
\* that exists is not opened, a missing one is created empty.
ensure_file_exists(present, text) == IF ~present THEN <<>> ELSE text

\* app.py:8: ensure_file_exists("/tmp/deleted_media_ids.txt") at import,
\* before the routes serve.
Startup ==
  /\ ~up
  /\ up' = TRUE
  /\ exists' = TRUE
  /\ deleted_media_ids' = ensure_file_exists(exists, deleted_media_ids)
  /\ UNCHANGED <<colVars, ledgerOp, called, appended, hookVars, lockVars,
                 taskVars, pureVars, resolveVars, job, connectVars>>

\* One request, from the payload to the response (sonarr.py:238-250,
\* radarr.py:146-155): was_media_deleted on the ledger as it stands, the
\* branch taken, handle_deletion_event for RecordDeletion, and for
\* AttemptAdd the thread process_download_event starts when its gate
\* passes.  Of the request ev keeps the branch and the response only.
Serve(endpoint) ==
  \E media_id \in ConcIds, event_type \in EventTypes,
     delete_reason \in DeleteReasons,
     is_dubbed \in {is_english_dubbed(d) : d \in DubFields} :
    LET deleted == was_media_deleted(deleted_media_ids, media_id)
        library == IF endpoint = "sonarr" THEN config.SONARR_LIBRARY
                   ELSE config.RADARR_LIBRARY
        taken == Classify(DeleteEvent(endpoint), event_type, delete_reason,
                          is_dubbed, deleted, library)
        seen == [NoEvent EXCEPT !.handled = TRUE, !.taken = {taken},
                                !.response = 200]
    IN  /\ up
        /\ deleted_media_ids' =
             IF taken = "RecordDeletion"
             THEN handle_deletion_event(deleted_media_ids, media_id)
             ELSE deleted_media_ids
        /\ IF taken = "AttemptAdd"
           THEN \E starts \in
                    {StartsThread(is_upgrade,
                                  is_recent_or_upcoming_release(date)) :
                       is_upgrade \in BOOLEAN, date \in DateFields} :
                  /\ ev' = [seen EXCEPT !.thread_started = starts]
                  /\ IF starts
                     THEN \E t \in Tasks :
                            /\ bg[t].pc = "unused"
                            /\ bg' = [bg EXCEPT ![t] =
                                        [NoTask EXCEPT !.pc = "start"]]
                            /\ job' = [job EXCEPT ![t] = media_id]
                     ELSE UNCHANGED <<bg, job>>
           ELSE /\ ev' = seen
                /\ UNCHANGED <<bg, job>>
        /\ UNCHANGED <<colVars, ledgerOp, called, appended, config, armed,
                       lockVars, req, cols0, pureVars, resolveVars, exists,
                       up, connectVars>>

\* sonarr.py:117-120, radarr.py:58-59: the thread resolves the media of
\* its event in the catalog, or finds nothing.
ResolveJob(t) ==
  /\ bg[t].pc = "start"
  /\ \/ bg' = [bg EXCEPT ![t] = [Called(bg[t], "list")
                                   EXCEPT !.media = MediaOf(job[t])]]
     \/ bg' = [bg EXCEPT ![t] = [Called(bg[t], "ended")
                                   EXCEPT !.outcome = "not_found"]]
  /\ UNCHANGED <<collections, req, taskFrame>>

\* The ledgers an earlier run of the process may have left in /tmp.
PriorLedgers ==
  {<<>>} \cup
  {handle_deletion_event(handle_deletion_event(<<>>, a), b) :
     a \in ConcIds, b \in ConcIds}

\* The process before app.py's first statement: the file is missing, or
\* left by an earlier run.
InitServer ==
  /\ up = FALSE
  /\ exists \in BOOLEAN
  /\ deleted_media_ids \in (IF exists THEN PriorLedgers ELSE {<<>>})
  /\ ledgerOp = NoLedgerOp
  /\ called = {}
  /\ appended = <<>>
  /\ job = [t \in Tasks |-> 0]

\* A process that is up with its ledger file in place.
NoServer ==
  /\ exists = TRUE
  /\ up = TRUE
  /\ job = [t \in Tasks |-> 0]

(***************************************************************************)
(* connect_to_plex (config.py:107-138), called at import (config.py:146).  *)
(***************************************************************************)
\* config.py:107: the default of max_retries, the one the import uses.
connect_max_retries == 6

\* config.py:121: the first retry_delay, in seconds.
retry_delay == 5

\* What PlexServer(url, token) may raise, as far as the code tells them
\* apart: it catches every Exception alike and keeps the last.
ConnectErrors == {"ConnectionError", "Timeout", "Unauthorized"}

\* A back-off that grows by the first delay each time.
NextDelay_Linear(delay) == delay + retry_delay

\* Line 134: retry_delay *= 2.
NextDelay(delay) == delay * 2

NoConnect ==
  [pc |-> "unused", max_retries |-> connect_max_retries, attempt |-> 0,
   retry_delay |-> retry_delay, last_exception |-> "None",
   answers |-> <<>>, sleeps |-> <<>>, raised |-> "None"]

\* Lines 124-134: one pass of `for attempt in range(max_retries)`.  A
\* connection returns at once; a failure is kept, and unless the attempt
\* was the last one the call sleeps retry_delay seconds and doubles it.
ConnectAttempt ==
  \E a \in {"connected"} \cup ConnectErrors :
    /\ cp.pc = "loop"
    /\ cp.attempt < cp.max_retries
    /\ cp' =
         IF a = "connected"
         THEN [cp EXCEPT !.pc = "returned",
                         !.answers = Append(@, a)]
         ELSE LET again == cp.attempt < cp.max_retries - 1 IN
              [cp EXCEPT !.answers = Append(@, a),
                         !.last_exception = a,
                         !.sleeps = IF again THEN Append(@, cp.retry_delay)
                                    ELSE @,
                         !.retry_delay = IF again THEN NextDelay(@) ELSE @,
                         !.attempt = @ + 1]
    /\ UNCHANGED <<colVars, ledgerVars, hookVars, lockVars, taskVars,
                   pureVars, resolveVars, serverVars>>

\* Lines 136-138: the loop is over without a connection; the call raises
\* the last exception, or a new one when there was none, out of the
\* import (config.py:146): the process ends before it serves.
ConnectRaise ==
  /\ cp.pc = "loop"
  /\ cp.attempt >= cp.max_retries
  /\ cp' = [cp EXCEPT !.pc = "raised",
                      !.raised = IF cp.last_exception # "None"
                                 THEN cp.last_exception
                                 ELSE "Exception"]
  /\ UNCHANGED <<colVars, ledgerVars, hookVars, lockVars, taskVars,
                 pureVars, resolveVars, serverVars>>

\* connect_to_plex is entered with max_retries attempts allowed.
InitConnect ==
  cp \in {[NoConnect EXCEPT !.pc = "loop", !.max_retries = n] :
            n \in 0..connect_max_retries}

\* None of the calls above.
NoMore == NoResolve /\ NoServer /\ cp = NoConnect

vars == <<colVars, ledgerVars, hookVars, concVars>>

(***************************************************************************)
(* Specifications.                                                         *)
(***************************************************************************)
\* Sequential manage_collection runs on one library.
InitSpecCollection ==
  InitCollection /\ InitLedger /\ NoHook /\ NoThreads /\ NoTasks /\ NoPure
  /\ NoMore

NextCollection == RunManageCollection

SpecCollection == InitSpecCollection /\ [][NextCollection]_vars

\* Sequential ledger calls.
InitSpecLedger ==
  NoCollection /\ InitLedger /\ NoHook /\ NoThreads /\ NoTasks /\ NoPure
  /\ NoMore

NextLedger ==
  \/ HandleDeletionEvent
  \/ WasMediaDeleted

SpecLedger == InitSpecLedger /\ [][NextLedger]_vars

\* Webhook requests handled one after the other.
InitSpecWebhook ==
  NoCollection /\ InitLedger /\ InitHook /\ NoThreads /\ NoTasks /\ NoPure
  /\ NoMore

NextWebhook ==
  \/ SonarrWebhook
  \/ RadarrWebhook

SpecWebhook == InitSpecWebhook /\ [][NextWebhook]_vars

\* Two request threads in handle_deletion_event and one in
\* was_media_deleted, interleaved at their file operations.
InitSpecLedgerConc ==
  NoCollection /\ InitLedger /\ NoHook /\ NoThreads /\ NoTasks /\ NoPure
  /\ NoMore

NextLedgerConc ==
  \/ \E t \in Writers : HdeCall(t)
  \/ \E t \in Writers : HdeLock(t)
  \/ \E t \in Writers : HdeCheck(t)
  \/ \E t \in Writers : HdeUnlock(t)
  \/ \E t \in Writers : HdeClose(t)
  \/ \E t \in Writers : TrimLock(t)
  \/ \E t \in Writers : TrimRead(t)
  \/ \E t \in Writers : TrimTruncate(t)
  \/ \E t \in Writers : TrimUnlock(t)
  \/ \E t \in Writers : TrimClose(t)
  \/ \E t \in Readers : WmdLock(t)
  \/ \E t \in Readers : WmdRead(t)

SpecLedgerConc == InitSpecLedgerConc /\ [][NextLedgerConc]_vars

\* Two background threads dispatched by the request thread, interleaved at
\* their catalog calls.
InitSpecTasks ==
  InitTasks /\ InitLedger /\ NoHook /\ NoThreads /\ NoPure /\ NoMore

NextTasks ==
  \/ \E t \in Tasks : Dispatch(t)
  \/ Respond
  \/ \E t \in Tasks : Resolve(t)
  \/ \E t \in Tasks : Fail(t)
  \/ \E t \in Tasks : Gone(t)
  \/ \E t \in Tasks : List(t)
  \/ \E t \in Tasks : Create(t)
  \/ \E t \in Tasks : Items1(t)
  \/ \E t \in Tasks : Add(t)
  \/ \E t \in Tasks : Move(t)
  \/ \E t \in Tasks : LenCheck(t)
  \/ \E t \in Tasks : Items2(t)
  \/ \E t \in Tasks : Remove(t)

SpecTasks == InitSpecTasks /\ [][NextTasks]_vars

\* is_recent_or_upcoming_release applied to one argument.
InitSpecRecency ==
  /\ NoCollection /\ InitLedger /\ NoHook /\ NoThreads /\ NoTasks
  /\ InitRecency
  /\ fz = NoFuzzy
  /\ NoMore

NextRecency == IsRecentCall

SpecRecency == InitSpecRecency /\ [][NextRecency]_vars

\* get_fuzzy_match applied to one library and one query.
InitSpecFuzzy ==
  /\ NoCollection /\ InitLedger /\ NoHook /\ NoThreads /\ NoTasks
  /\ InitFuzzy
  /\ rc = NoRecency
  /\ NoMore

NextFuzzy == FuzzyCall

SpecFuzzy == InitSpecFuzzy /\ [][NextFuzzy]_vars

\* One get_episode_from_data call against a catalog that answers each call
\* in any way.
InitSpecResolve ==
  NoCollection /\ InitLedger /\ NoHook /\ NoThreads /\ NoTasks /\ NoPure
  /\ NoMore

NextResolve ==
  \/ GeCall
  \/ GeSection
  \/ GeSearch
  \/ GeFuzzy
  \/ GeEpisode

SpecResolve == InitSpecResolve /\ [][NextResolve]_vars

\* The thread that runs the call is scheduled as long as it has a step, and
\* time.sleep returns.
SpecResolveFair == SpecResolve /\ WF_vars(NextResolve)

\* The serving process from its start, with a catalog that answers every
\* call (SpecTasks has the calls that raise).
InitSpecServer ==
  NoCollection /\ InitServer /\ NoHook /\ NoThreads /\ NoTasks /\ NoPure
  /\ NoResolve /\ cp = NoConnect

NextServer ==
  \/ Startup
  \/ \E endpoint \in {"sonarr", "radarr"} : Serve(endpoint)
  \/ \E t \in Tasks : ResolveJob(t)
  \/ \E t \in Tasks : List(t)
  \/ \E t \in Tasks : Create(t)
  \/ \E t \in Tasks : Items1(t)
  \/ \E t \in Tasks : Add(t)
  \/ \E t \in Tasks : Move(t)
  \/ \E t \in Tasks : LenCheck(t)
  \/ \E t \in Tasks : Items2(t)
  \/ \E t \in Tasks : Remove(t)

SpecServer == InitSpecServer /\ [][NextServer]_vars

\* One connect_to_plex call against a server that answers each attempt in
\* any way.
InitSpecConnect ==
  NoCollection /\ InitLedger /\ NoHook /\ NoThreads /\ NoTasks /\ NoPure
  /\ NoResolve /\ NoServer /\ InitConnect

NextConnect ==
  \/ ConnectAttempt
  \/ ConnectRaise

SpecConnect == InitSpecConnect /\ [][NextConnect]_vars

(***************************************************************************)
(* Claims about manage_collection, checked under SpecCollection.           *)
(***************************************************************************)
\* The last k elements of s, most recent first.
MostRecent(s, k) == Reverse(SubSeq(s, Len(s) - k + 1, Len(s)))

\* C1: starting from a library with no "Latest Dubs" collection, after
\* manage_collection has run for N distinct items the collection holds
\* exactly the min(N, MAX_COLLECTION_SIZE) most recently added items, the
\* last one added at index 0.
C1_MostRecentKept ==
  (fresh /\ NoDup(added)) =>
    LatestDubs(collections) =
      MostRecent(added, Min(Len(added), MAX_COLLECTION_SIZE))

\* C2: when the trim step sees a collection of size S >= MAX_COLLECTION_SIZE
\* it removes exactly the last S - MAX_COLLECTION_SIZE items (none when
\* S = MAX_COLLECTION_SIZE): what remains is the first MAX_COLLECTION_SIZE
\* items, in order.
C2_TrimRemovesTail ==
  (mc.done /\ mc.found /\ Len(mc.pretrim) >= MAX_COLLECTION_SIZE) =>
    LatestDubs(collections) = SubSeq(mc.pretrim, 1, MAX_COLLECTION_SIZE)

\* C3: after every completed run of manage_collection the collection holds
\* at most MAX_COLLECTION_SIZE items and no item twice.
C3_SizeBoundNoDup ==
  mc.done =>
    /\ Len(LatestDubs(collections)) <= MAX_COLLECTION_SIZE
    /\ NoDup(LatestDubs(collections))

\* A run whose trim step met more than MAX_COLLECTION_SIZE items and cut
\* the collection down to MAX_COLLECTION_SIZE.
C3_Witness ==
  /\ mc.done
  /\ Len(mc.pretrim) > MAX_COLLECTION_SIZE
  /\ Len(LatestDubs(collections)) = MAX_COLLECTION_SIZE

\* C4: a run for an item that is already a member of a collection of size
\* at most MAX_COLLECTION_SIZE leaves the collection as it was: same size,
\* every item at the same position.
C4_PresentItemNoChange ==
  (/\ mc.done
   /\ mc.found
   /\ mc.media \in Range(mc.before)
   /\ Len(mc.before) <= MAX_COLLECTION_SIZE) =>
    LatestDubs(collections) = mc.before

\* C5: after any completed run of manage_collection for item X, X is at
\* index 0 of the collection.
C5_ProcessedItemAtFront ==
  mc.done =>
    /\ LatestDubs(collections) # <<>>
    /\ LatestDubs(collections)[1] = mc.media

(***************************************************************************)
(* Claims about the deletion ledger, checked under SpecLedger.             *)
(***************************************************************************)
\* C6: was_media_deleted(id) is false if handle_deletion_event(id) was
\* never called, and true right after handle_deletion_event(id) returns,
\* whatever other ids the ledger holds.
C6_RecordedIffCalled ==
  /\ (ledgerOp.op = "query" /\ ledgerOp.id \notin called) =>
       ledgerOp.result = FALSE
  /\ ledgerOp.op = "record" =>
       was_media_deleted(deleted_media_ids, ledgerOp.id)

\* The last MaxLedgerEntries ids of a history, oldest first.
LastAppended(history) ==
  SubSeq(history, Len(history) - Min(Len(history), MaxLedgerEntries) + 1,
         Len(history))

\* The number of ids appended after the last append of id (id appended).
AppendedAfter(history, id) ==
  LET p == CHOOSE p \in DOMAIN history :
             /\ history[p] = id
             /\ \A q \in (p + 1)..Len(history) : history[q] # id
  IN  Len(history) - p

\* C7: after any sequence of handle_deletion_event calls the ledger holds
\* at most MaxLedgerEntries lines, and they are exactly the most recently
\* appended ids, distinct, in append order: an appended id is recorded while
\* at most MaxLedgerEntries - 1 ids were appended after it and is gone once
\* MaxLedgerEntries or more were.
C7_LastAppendedKept ==
  LET lines == splitlines(deleted_media_ids) IN
  /\ Len(lines) <= MaxLedgerEntries
  /\ NoDup(lines)
  /\ lines = [i \in DOMAIN LastAppended(appended) |->
                str(LastAppended(appended)[i])]
  /\ \A id \in Range(appended) :
       was_media_deleted(deleted_media_ids, id) <=>
         AppendedAfter(appended, id) <= MaxLedgerEntries - 1

\* A handle_deletion_event call has just appended an id to a full ledger
\* and the oldest id was evicted.
C7_Witness ==
  /\ ledgerOp.op = "record"
  /\ Len(appended) > MaxLedgerEntries
  /\ appended[Len(appended)] = ledgerOp.id
  /\ ~was_media_deleted(deleted_media_ids,
                        appended[Len(appended) - MaxLedgerEntries])
  /\ Len(splitlines(deleted_media_ids)) = MaxLedgerEntries

\* C18: handle_deletion_event(id), called sequentially when id is already a
\* line of the ledger, leaves the ledger's contents and order unchanged, and
\* after any sequence of sequential handle_deletion_event calls no id is in
\* the ledger more than once.
C18_IdempotentNoDuplicates ==
  /\ [](NoDup(splitlines(deleted_media_ids)))
  /\ [][(/\ ledgerOp'.op = "record"
         /\ was_media_deleted(deleted_media_ids, ledgerOp'.id)) =>
          deleted_media_ids' = deleted_media_ids]_vars

\* handle_deletion_event has just returned for an id that was appended
\* earlier and is still recorded, other ids were appended after it, and
\* the call appended nothing.
C18_Witness ==
  /\ ledgerOp.op = "record"
  /\ was_media_deleted(deleted_media_ids, ledgerOp.id)
  /\ ledgerOp.id \in Range(appended)
  /\ appended[Len(appended)] # ledgerOp.id
  /\ Len(splitlines(deleted_media_ids)) > 1

(***************************************************************************)
(* Claims about the webhook handlers, checked under SpecWebhook.           *)
(***************************************************************************)
\* C8: on either endpoint, once an upgrade file-delete event of dubbed
\* media has been handled for id X and while X has not been evicted from
\* the ledger, every later Download event for X on that endpoint is
\* classified SuppressAsDeleted and starts no background thread.
C8_DownloadSuppressedAfterDelete ==
  (ev.handled /\ ev.kind = "Download" /\ ev.armed) =>
    /\ ev.taken = {"SuppressAsDeleted"}
    /\ ~ev.thread_started

\* C9: each handler takes exactly one disposition, that of the first
\* matching rule: (a) own file-delete event, reason 'upgrade', dubbed ->
\* RecordDeletion, also when the id is already recorded; (b) id recorded in
\* the ledger -> SuppressAsDeleted; (c) 'Download', dubbed, library
\* configured -> AttemptAdd; (d) otherwise Skip.
C9_FirstMatchingRule ==
  (ev.handled /\ ~ev.raised) =>
    LET a == ev.kind = "delete" /\ ev.upgrade_delete /\ ev.is_dubbed
        b == ev.deleted
        c == ev.kind = "Download" /\ ev.is_dubbed /\ ev.library
    IN  /\ Cardinality(ev.taken) = 1
        /\ "RecordDeletion" \in ev.taken <=> a
        /\ "SuppressAsDeleted" \in ev.taken <=> (~a /\ b)
        /\ "AttemptAdd" \in ev.taken <=> (~a /\ ~b /\ c)
        /\ "Skip" \in ev.taken <=> (~a /\ ~b /\ ~c)

\* An upgrade file-delete event of dubbed media whose id was already in the
\* ledger: rules (a) and (b) both match, and the handler recorded the
\* deletion.
C9_Witness ==
  /\ ev.handled
  /\ ev.kind = "delete" /\ ev.upgrade_delete /\ ev.is_dubbed
  /\ ev.deleted
  /\ ev.taken = {"RecordDeletion"}

\* C10: each handler answers ('Webhook received', 200) for every JSON
\* payload, fields missing or 'episodes' an empty list included; no payload
\* makes it raise.
C10_AlwaysAnswers200 ==
  ev.handled => (ev.response = 200 /\ ~ev.raised)

\* C14: for an event classified AttemptAdd a background thread is started
\* if and only if is_upgrade is true or the air / release date is recent or
\* upcoming; when both are false none is started.
C14_ThreadIffUpgradeOrRecent ==
  (ev.handled /\ ev.taken = {"AttemptAdd"}) =>
    (ev.thread_started <=> (ev.is_upgrade \/ ev.is_recent_release))

\* A Download of dubbed media that is no upgrade, with a recent air date:
\* the thread was started.
C14_Witness ==
  /\ ev.handled
  /\ ev.taken = {"AttemptAdd"}
  /\ ~ev.is_upgrade
  /\ ev.is_recent_release
  /\ ev.thread_started

\* C19: when the handler has returned 200 for an event classified
\* RecordDeletion(id), id is in the ledger: was_media_deleted(id) is true
\* for every request handled after that response, until id is evicted.
C19_RecordedBeforeResponse ==
  (ev.handled /\ ev.taken = {"RecordDeletion"}) =>
    (ev.response = 200 /\ ev.recorded)

\* C26: the ledger is one id set shared by both endpoints: once an upgrade
\* file-delete of dubbed media has been handled for id X on one endpoint
\* and while X has not been evicted, every event with id X on the other
\* endpoint that is not itself a RecordDeletion is classified
\* SuppressAsDeleted.
C26_LedgerSharedByEndpoints ==
  (ev.handled /\ ev.armed_other /\ ev.taken # {"RecordDeletion"}) =>
    ev.taken = {"SuppressAsDeleted"}

(***************************************************************************)
(* Claims about concurrent ledger calls, checked under SpecLedgerConc.     *)
(***************************************************************************)
\* Every handle_deletion_event call has returned.
AllReturned == \A t \in Writers : lt[t].pc = "idle"

\* C11: when handle_deletion_event calls for different ids run
\* concurrently, then once all of them have returned every id that was
\* appended and is among the MaxLedgerEntries most recently appended is in
\* the ledger file.
C11_NoLostAppend ==
  AllReturned =>
    \A id \in Range(LastAppended(appended)) :
      was_media_deleted(deleted_media_ids, id)

\* C12: a was_media_deleted(id) call that reads the file between another
\* thread's trim_file truncate and the write-back of the lines it keeps,
\* id among them, returns true.
C12_ReaderSeesKeptId ==
  \A t \in Readers :
    (lt[t].pc = "returned" /\ lt[t].in_window) => lt[t].result

(***************************************************************************)
(* Claims about background threads, checked under SpecTasks.               *)
(***************************************************************************)
\* The collections a complete manage_collection call for media may leave.
SeqRun(cols, media) ==
  LET i == FindCollection(cols, collection_name) IN
  IF i = 0 THEN {createCollection(cols, media)}
  ELSE Stored(cols, i, TrimStep(MembershipStep(cols[i].items, media)))

\* The collections two calls, one after the other, may leave.
SeqRun2(cols, first, second) ==
  UNION {SeqRun(c, second) : c \in SeqRun(cols, first)}

\* Both threads ran manage_collection to its end or to a call that the
\* other thread's changes made fail, and no catalog call failed otherwise.
BothFinished ==
  \A t \in Tasks :
    /\ bg[t].pc = "ended"
    /\ bg[t].outcome # "not_found"
    /\ bg[t].fault # "injected"

\* C13: when two background threads run manage_collection on the same
\* collection with their catalog calls interleaved, then once both have
\* finished the collection holds at most MAX_COLLECTION_SIZE items, no item
\* twice, and every item that one of the two sequential executions keeps.
C13_InterleavedRunsValid ==
  BothFinished =>
    LET final == LatestDubs(collections) IN
    /\ Len(final) <= MAX_COLLECTION_SIZE
    /\ NoDup(final)
    /\ \E c \in SeqRun2(cols0, bg["t1"].media, bg["t2"].media) \cup
                SeqRun2(cols0, bg["t2"].media, bg["t1"].media) :
         Range(LatestDubs(c)) \subseteq Range(final)

\* C16: the webhook handler returns its 200 response without waiting for
\* the background thread it started: it can return whatever the thread has
\* done so far, and the response is 200 whether the thread succeeds, fails
\* or finds nothing.
C16_ResponseNotBlocked ==
  /\ req.pc = "started" => ENABLED Respond
  /\ req.pc = "responded" => req.response = 200

\* The response was returned before the thread made any catalog call, and
\* the thread failed afterwards.
C16_Witness ==
  /\ req.pc = "responded"
  /\ req.response = 200
  /\ req.calls_at_response = 0
  /\ bg[req.task].pc = "ended"
  /\ bg[req.task].fault = "injected"

\* C20: when a catalog call of a background thread fails, the thread issues
\* no further catalog call, does not retry, leaves in place what it has
\* already applied, and ends; the failure does not leave the thread and the
\* response of the request stays 200.
C20_FailureEndsTask ==
  /\ [](\A t \in Tasks :
          bg[t].fault # "none" =>
            /\ bg[t].pc = "ended"
            /\ bg[t].after_fault = 0
            /\ ~bg[t].escaped
            /\ req.pc = "responded" => req.response = 200)
  /\ [][\A t \in Tasks :
          (bg[t].fault = "none" /\ bg'[t].fault # "none") =>
            collections' = collections]_vars

\* addItems succeeded and moveItem failed: the thread has ended and the
\* item it added is still at the tail of the collection.
C20_Witness ==
  \E t \in Tasks :
    /\ bg[t].pc = "ended"
    /\ bg[t].fault = "injected"
    /\ \A u \in Tasks \ {t} : bg[u].pc = "unused"
    /\ LET items == LatestDubs(collections) IN
       /\ Len(items) > 1
       /\ items[Len(items)] = bg[t].media
       /\ bg[t].media \notin Range(LatestDubs(cols0))

\* C22: when no "Latest Dubs" collection exists before the background
\* threads run, the library holds at most one collection of that title
\* after any interleaving of their manage_collection calls.
C22_AtMostOneLatestDubs ==
  FindCollection(cols0, collection_name) = 0 =>
    Cardinality({i \in DOMAIN collections :
                   collections[i].title = collection_name}) <= 1

(***************************************************************************)
(* Claims about the pure functions, checked under SpecRecency and          *)
(* SpecFuzzy.                                                              *)
(***************************************************************************)
\* C15: is_recent_or_upcoming_release(date_str) returns false when date_str
\* is absent or no valid date, and for the date k days before UTC today it
\* returns true exactly when 0 <= k <= MAX_DATE_DIFF or the date is after
\* today (k < 0).
C15_RecentIffInWindowOrFuture ==
  rc.called =>
    IF rc.class = "date"
    THEN rc.result <=> ((0 <= rc.k /\ rc.k <= MAX_DATE_DIFF) \/ rc.k < 0)
    ELSE rc.result = FALSE

\* The call for the date exactly MAX_DATE_DIFF days ago, in the month before
\* today's, returned true.
C15_Witness ==
  /\ rc.called
  /\ rc.class = "date"
  /\ rc.k = MAX_DATE_DIFF
  /\ strptime(rc.arg.text).month # rc.today.month
  /\ rc.result

\* The best score among the library's titles, -1 for an empty library.
BestScore(titles, score) ==
  IF titles = <<>> THEN -1
  ELSE CHOOSE b \in {score[titles[i]] : i \in DOMAIN titles} :
         \A i \in DOMAIN titles : score[titles[i]] <= b

\* C17: get_fuzzy_match returns no match when the library has no items or
\* the best score of its titles is below score_cutoff; otherwise it returns
\* an item of the library whose title has the best score.
C17_BestMatchOrNone ==
  fz.called =>
    IF BestScore(fz.titles, fz.score) < score_cutoff
    THEN fz.result = 0
    ELSE /\ fz.result \in DOMAIN fz.titles
         /\ fz.score[fz.titles[fz.result]] = BestScore(fz.titles, fz.score)

\* The best title is not the first to reach the cutoff, and the call
\* returned its item.
C17_Witness ==
  /\ fz.called
  /\ Len(fz.titles) >= 2
  /\ fz.score[fz.titles[1]] = score_cutoff
  /\ BestScore(fz.titles, fz.score) > score_cutoff
  /\ fz.result > 1

(***************************************************************************)
(* Claims about get_episode_from_data, checked under SpecResolveFair.      *)
(***************************************************************************)
\* C21: every get_episode_from_data call returns, whatever the catalog
\* answers: it makes at most max_retries exact-title searches, calls the
\* fuzzy resolver at most once and only if no search returned an exact
\* match, makes at most max_retries episode lookups, and returns None once
\* the attempts are exhausted.
C21_ResolveTerminates ==
  /\ [](/\ ge.searches <= max_retries
        /\ ge.fuzzies <= 1
        /\ ge.fuzzies = 1 => "exact" \notin Range(answers)
        /\ ge.lookups <= max_retries
        /\ (ge.pc = "returned" /\ ge.lookups = max_retries
               /\ "found" \notin Range(answers)) => ge.result = "None"
        /\ (ge.pc = "returned" /\ ge.fuzzies = 1
               /\ answers[Len(answers)] = "none") => ge.result = "None")
  /\ <>(ge.pc = "returned")

\* Every attempt was used: three searches without an exact match, the fuzzy
\* resolver found the show, three episode lookups failed, None returned.
C21_Witness ==
  /\ ge.pc = "returned"
  /\ ge.result = "None"
  /\ ge.searches = max_retries
  /\ ge.fuzzies = 1
  /\ ge.lookups = max_retries
  /\ ge.show = "fuzzy"

(***************************************************************************)
(* Claims about the serving process, checked under SpecServer.             *)
(***************************************************************************)
\* The pcs of a thread that has entered manage_collection and not left it.
InManageCollection == {"create", "items1", "add", "move", "len", "items2",
                       "remove"}

C25_NoReconcileAfterDeletion ==
  \A t \in Tasks :
    bg[t].pc \in InManageCollection =>
      ~was_media_deleted(deleted_media_ids, job[t])

(***************************************************************************)
(* Claims about connect_to_plex, checked under SpecConnect.                *)
(***************************************************************************)
\* C24: connect_to_plex makes at most max_retries (6) connection attempts,
\* returns at the first successful attempt without a further one, sleeps
\* 5 * 2^(k-1) seconds after the k-th failed attempt (5, 10, 20, 40, 80)
\* and not after the last one, and raises when all attempts failed.
C24_ConnectBackoff ==
  LET n == Len(cp.answers)
      failed == Cardinality({i \in 1..n : cp.answers[i] # "connected"})
  IN  /\ n <= cp.max_retries
      /\ \A i \in 1..(n - 1) : cp.answers[i] # "connected"
      /\ cp.pc = "returned" <=> (n > 0 /\ cp.answers[n] = "connected")
      /\ cp.sleeps = [k \in 1..Min(failed, cp.max_retries - 1) |->
                        5 * 2^(k - 1)]
      /\ cp.pc = "raised" =>
           /\ failed = cp.max_retries
           /\ cp.raised # "None"
      /\ (cp.pc = "loop" /\ failed = cp.max_retries) => ENABLED ConnectRaise

\* The call with the default of six attempts: all six failed, the call
\* slept 5, 10, 20, 40 and 80 seconds and has raised.
C24_Witness ==
  /\ cp.max_retries = 6
  /\ cp.pc = "raised"
  /\ Len(cp.answers) = 6
  /\ cp.sleeps = <<5, 10, 20, 40, 80>>

====
